---- MODULE Spec2Model ----
(***************************************************************************)
(* Credential lifecycle of the X/Twitter v2 client: the Authenticator      *)
(* (src/src/auth.rs) with its cached bearer token behind a tokio RwLock,   *)
(* and the request layer Api::execute_request (src/src/lib.rs) with its    *)
(* single retry after a 401.                                               *)
(*                                                                         *)
(* Every caller is a task that calls authenticate(), refresh_and_cache()   *)
(* or execute_request() on clones of one Api; the async functions are cut  *)
(* at their suspension points (lock acquisition, network exchange, the     *)
(* blocking read of the operator's line).                                  *)
(*                                                                         *)
(* The RwLock is modelled by its guards: a read guard is granted when no   *)
(* write guard is out, the write guard when no guard is out. tokio's lock  *)
(* also queues its waiters in order of arrival; the model allows any       *)
(* order, which includes that one.                                         *)
(*                                                                         *)
(* Tokens are numbers (NoToken is None); the token endpoint may answer     *)
(* any exchange with any token or with an error, stdin may give any line   *)
(* or fail, and the downstream API may answer with any status and body.    *)
(***************************************************************************)
EXTENDS Integers, Sequences, FiniteSets

\* ---- bounds ----
NumCallers == 2
MaxCalls == 2
NumTokens == 2
MaxLineLen == 1

\* ---- program constants ----
NoToken == 0
StatusOk == 200
StatusUnauthorized == 401
StatusRateLimit == 429
StatusServerError == 500
MaxAttempts == 2

Callers == 1..NumCallers
\* the task that goes through the request layer; the other tasks use the
\* authenticator (a clone of it) directly, which is all that execute_request
\* does to the shared slot
Requesters == {1}
NoCaller == 0
\* Option<String> refresh_token: None, the value of X_REFRESH_TOKEN, and a
\* value the token endpoint hands out later
NoRefreshToken == "none"
EnvRefreshToken == "env"
RotatedRefreshToken == "rotated"
Tokens == 1..NumTokens
Statuses == {StatusOk, StatusUnauthorized, StatusRateLimit, StatusServerError}

\* ---- Result<T, Error> values ----
NoResult == [kind |-> "None", tok |-> NoToken, val |-> "-"]
Ok(t) == [kind |-> "Ok", tok |-> t, val |-> "-"]
OkValue(v) == [kind |-> "Ok", tok |-> NoToken, val |-> v]
Err(e) == [kind |-> "Err", tok |-> NoToken, val |-> e]

\* ---- the operator's input line ----
Whitespace == {" ", "\t", "\r", "\n"}
CodeChars == {" ", "a"}

RECURSIVE SeqsUpTo(_)
SeqsUpTo(n) ==
  IF n = 0 THEN {<<>>}
  ELSE LET shorter == SeqsUpTo(n - 1)
       IN shorter \cup {Append(s, c) : s \in {t \in shorter : Len(t) = n - 1}, c \in CodeChars}

\* read_line gives the text up to and including the first newline, or up to
\* end of input when there is none
Lines == {l \o t : l \in SeqsUpTo(MaxLineLen), t \in {<<>>, <<"\n">>}}

RECURSIVE TrimStart(_)
TrimStart(s) ==
  IF s # <<>> /\ Head(s) \in Whitespace THEN TrimStart(Tail(s)) ELSE s

RECURSIVE TrimEnd(_)
TrimEnd(s) ==
  IF s # <<>> /\ s[Len(s)] \in Whitespace THEN TrimEnd(SubSeq(s, 1, Len(s) - 1)) ELSE s

TrimIdentity(s) == s
Trim(s) == TrimEnd(TrimStart(s))

VARIABLES
  bearer_token,   \* Authenticator.bearer_token: NoToken (None) or the cached token
  refresh_token,  \* Authenticator.refresh_token: the value of X_REFRESH_TOKEN, or none
  writer,         \* the caller holding the RwLock write guard, or NoCaller
  readers,        \* the callers holding a read guard
  pc,             \* each caller's position
  op,             \* the public operation each caller is in
  ctx,            \* who called refresh_and_cache: "authenticate" or "force"
  token,          \* execute_request: local `token`
  attempt,        \* execute_request: loop variable `attempt`
  result,         \* what the caller's operation returned
  calls,          \* number of operations started so far
  \* history of the current call / acquisition
  seen,           \* what the last authenticate()'s read found: "unread", "empty", "cached"
  acq,            \* request_bearer runs of the last authenticate()/refresh_and_cache()
  refreshOutcome, \* outcome of refresh_bearer_token in this acquisition
  refreshEx,      \* refresh-grant exchanges sent to the token endpoint in this acquisition
  interRuns,      \* interactive_flow runs (URL shown) in this acquisition
  codeEx,         \* code-grant exchanges sent to the token endpoint in this acquisition
  code,           \* interactive_flow: local `code`, the trimmed line
  lineBlank,      \* whether the line read had nothing but whitespace
  slotAtLock,     \* the slot's value when the write guard was obtained, while it is held
  slotChanged,    \* whether the last refresh_and_cache returned with another value in the slot
  rcRet,          \* what the last refresh_and_cache returned
  sends,          \* downstream sends of this call
  forced,         \* refresh_and_cache calls made by execute_request's 401 branch
  sentToken,      \* the bearer of the send that a 401 rejected, during the call
  lastStatus,     \* status of the last downstream response
  bodyRead,       \* whether the last downstream response's body could be read
  lastAcquired,   \* the bearer the most recent successful refresh_and_cache returned
  sentRt,         \* the refresh token sent in this acquisition's refresh-grant request
  returnedRt,     \* the refresh token the token endpoint returned with the bearer
  surfaced        \* what this acquisition wrote to the operator's log about the tokens

sharedVars == <<bearer_token, refresh_token, writer, readers>>
authHist == <<seen, acq, rcRet>>
acqHist == <<refreshOutcome, refreshEx, interRuns, codeEx, code, lineBlank, slotAtLock,
            slotChanged, sentRt, returnedRt, surfaced>>
reqHist == <<sends, forced, lastStatus, bodyRead>>
vars == <<bearer_token, refresh_token, writer, readers, pc, op, ctx, token, attempt,
          result, calls, seen, acq, refreshOutcome, refreshEx, interRuns, codeEx, code,
          lineBlank, slotAtLock, slotChanged, rcRet, sends, forced, sentToken, lastStatus,
          bodyRead, lastAcquired, sentRt, returnedRt, surfaced>>

Bodies == {"unreadable", "value", "api_error", "garbage"}

Init ==
  /\ bearer_token = NoToken
  /\ refresh_token \in {NoRefreshToken, EnvRefreshToken}
  /\ writer = NoCaller
  /\ readers = {}
  /\ pc = [p \in Callers |-> "idle"]
  /\ op = [p \in Callers |-> "none"]
  /\ ctx = [p \in Callers |-> "none"]
  /\ token = [p \in Callers |-> NoToken]
  /\ attempt = [p \in Callers |-> 0]
  /\ result = [p \in Callers |-> NoResult]
  /\ calls = 0
  /\ seen = [p \in Callers |-> "unread"]
  /\ acq = [p \in Callers |-> 0]
  /\ refreshOutcome = [p \in Callers |-> "none"]
  /\ refreshEx = [p \in Callers |-> 0]
  /\ interRuns = [p \in Callers |-> 0]
  /\ codeEx = [p \in Callers |-> 0]
  /\ code = [p \in Callers |-> <<>>]
  /\ lineBlank = [p \in Callers |-> FALSE]
  /\ slotAtLock = [p \in Callers |-> NoToken]
  /\ slotChanged = [p \in Callers |-> FALSE]
  /\ rcRet = [p \in Callers |-> NoResult]
  /\ sends = [p \in Callers |-> 0]
  /\ forced = [p \in Callers |-> 0]
  /\ sentToken = [p \in Callers |-> NoToken]
  /\ lastStatus = [p \in Callers |-> 0]
  /\ bodyRead = [p \in Callers |-> FALSE]
  /\ lastAcquired = NoToken
  /\ sentRt = [p \in Callers |-> NoRefreshToken]
  /\ returnedRt = [p \in Callers |-> NoRefreshToken]
  /\ surfaced = [p \in Callers |-> {}]

\* ---- starting an operation ----

\* no acquisition has run yet
ClearAcq(p) ==
  /\ refreshOutcome' = [refreshOutcome EXCEPT ![p] = "none"]
  /\ refreshEx' = [refreshEx EXCEPT ![p] = 0]
  /\ interRuns' = [interRuns EXCEPT ![p] = 0]
  /\ codeEx' = [codeEx EXCEPT ![p] = 0]
  /\ code' = [code EXCEPT ![p] = <<>>]
  /\ lineBlank' = [lineBlank EXCEPT ![p] = FALSE]
  /\ slotChanged' = [slotChanged EXCEPT ![p] = FALSE]
  /\ sentRt' = [sentRt EXCEPT ![p] = NoRefreshToken]
  /\ returnedRt' = [returnedRt EXCEPT ![p] = NoRefreshToken]
  /\ surfaced' = [surfaced EXCEPT ![p] = {}]

\* the history of a call starts empty; what it records of authenticate() and
\* of an acquisition is kept until the task's next send or next call
StartCall(p, o, at) ==
  /\ pc[p] \in {"idle", "done"}
  /\ calls < MaxCalls
  /\ calls' = calls + 1
  /\ pc' = [pc EXCEPT ![p] = at]
  /\ op' = [op EXCEPT ![p] = o]
  /\ ctx' = [ctx EXCEPT ![p] = IF o = "refresh_and_cache" THEN "force" ELSE "none"]
  /\ result' = [result EXCEPT ![p] = NoResult]
  /\ token' = [token EXCEPT ![p] = NoToken]
  /\ attempt' = [attempt EXCEPT ![p] = 0]
  /\ seen' = [seen EXCEPT ![p] = "unread"]
  /\ acq' = [acq EXCEPT ![p] = 0]
  /\ rcRet' = [rcRet EXCEPT ![p] = NoResult]
  /\ ClearAcq(p)
  /\ slotAtLock' = [slotAtLock EXCEPT ![p] = NoToken]
  /\ sends' = [sends EXCEPT ![p] = 0]
  /\ forced' = [forced EXCEPT ![p] = 0]
  /\ sentToken' = [sentToken EXCEPT ![p] = NoToken]
  /\ lastStatus' = [lastStatus EXCEPT ![p] = 0]
  /\ bodyRead' = [bodyRead EXCEPT ![p] = FALSE]
  /\ UNCHANGED <<sharedVars, lastAcquired>>

\* a task calls authenticator.authenticate(&http)
CallAuthenticate(p) == StartCall(p, "authenticate", "auth_read")

\* a task calls authenticator.refresh_and_cache(&http) itself
CallRefreshAndCache(p) == StartCall(p, "refresh_and_cache", "rc_lock")

\* a task calls an endpoint (tweet -> post -> execute_request), whose first
\* statement is authenticate()
CallExecuteRequest(p) ==
  /\ p \in Requesters
  /\ StartCall(p, "execute_request", "auth_read")

\* ---- returning from authenticate() / refresh_and_cache() ----

\* execute_request: `token = self.authenticator.refresh_and_cache(..).await?`
TokenKeepOld(old, res) == old
TokenAfterRefresh(old, res) == res.tok

\* the operation ends with res; its locals go out of scope
Finish(p, res) ==
  /\ pc' = [pc EXCEPT ![p] = "done"]
  /\ result' = [result EXCEPT ![p] = res]
  /\ token' = [token EXCEPT ![p] = NoToken]
  /\ attempt' = [attempt EXCEPT ![p] = 0]
  /\ sentToken' = [sentToken EXCEPT ![p] = NoToken]

\* res is handed to the frame that awaited authenticate()/refresh_and_cache():
\* the task itself, or execute_request, where `?` returns an Err and an Ok
\* value becomes `token` (entering the loop, or `continue` to the next
\* attempt; after the last attempt the loop ends in unreachable!)
AuthReturn(p, res) ==
  IF op[p] = "execute_request" /\ res.kind = "Ok"
  THEN LET next == IF ctx[p] = "force" THEN attempt[p] + 1 ELSE 0
       IN /\ pc' = [pc EXCEPT ![p] = IF next < MaxAttempts THEN "send" ELSE "unreachable"]
          /\ token' = [token EXCEPT ![p] =
                         IF ctx[p] = "force" THEN TokenAfterRefresh(token[p], res) ELSE res.tok]
          /\ attempt' = [attempt EXCEPT ![p] = next]
          /\ UNCHANGED <<result, sentToken>>
  ELSE Finish(p, res)

\* ---- authenticate ----

ReadLockDuringWrite(p) ==
  /\ pc[p] = "auth_read"
  /\ readers' = readers \cup {p}
  /\ pc' = [pc EXCEPT ![p] = "auth_check"]
  /\ UNCHANGED <<bearer_token, lastAcquired, refresh_token, writer, op, ctx, token, attempt, result, calls,
                 sentToken>>
  /\ UNCHANGED <<authHist, acqHist, reqHist>>

\* self.bearer_token.read().await: granted when no write guard is out
ReadLock(p) ==
  /\ pc[p] = "auth_read"
  /\ writer = NoCaller
  /\ readers' = readers \cup {p}
  /\ pc' = [pc EXCEPT ![p] = "auth_check"]
  /\ UNCHANGED <<bearer_token, lastAcquired, refresh_token, writer, op, ctx, token, attempt, result, calls,
                 sentToken>>
  /\ UNCHANGED <<authHist, acqHist, reqHist>>

ReadGuardKept(rs, p) == rs
\* the read guard `guard` lives in the `if let` block: it is dropped before
\* the return inside it and before refresh_and_cache is called after it
ReadGuardDropped(rs, p) == rs \ {p}

CacheNeverHit(slot) == FALSE
\* `if let Some(bearer) = &*guard`
CacheHit(slot) == slot # NoToken

\* `if let Some(bearer) = &*guard { return Ok(bearer.to_owned()) }`, the read
\* guard is dropped at the end of the `if let`; else refresh_and_cache
AuthCheck(p) ==
  /\ pc[p] = "auth_check"
  /\ readers' = ReadGuardDropped(readers, p)
  /\ IF CacheHit(bearer_token)
     THEN /\ seen' = [seen EXCEPT ![p] = "cached"]
          /\ AuthReturn(p, Ok(bearer_token))
          /\ UNCHANGED ctx
     ELSE /\ seen' = [seen EXCEPT ![p] = "empty"]
          /\ pc' = [pc EXCEPT ![p] = "rc_lock"]
          /\ ctx' = [ctx EXCEPT ![p] = "authenticate"]
          /\ UNCHANGED <<token, attempt, result, sentToken>>
  /\ UNCHANGED <<bearer_token, lastAcquired, refresh_token, writer, op, calls, acq, rcRet>>
  /\ UNCHANGED <<acqHist, reqHist>>

\* ---- refresh_and_cache ----

WriteFree == TRUE
\* RwLock::write: no other guard, read or write, is out
WriteExclusive == writer = NoCaller /\ readers = {}

\* self.bearer_token.write().await, then request_bearer starts
WriteLock(p) ==
  /\ pc[p] = "rc_lock"
  /\ WriteExclusive
  /\ writer' = p
  /\ pc' = [pc EXCEPT ![p] = "request_bearer"]
  /\ acq' = [acq EXCEPT ![p] = acq[p] + 1]
  /\ slotAtLock' = [slotAtLock EXCEPT ![p] = bearer_token]
  /\ ClearAcq(p)
  /\ UNCHANGED <<bearer_token, lastAcquired, refresh_token, readers, op, ctx, token, attempt, result,
                 calls, seen, rcRet, sentToken>>
  /\ UNCHANGED reqHist

CachedStale(old, bearer) == old
\* `*cached = Some(bearer.clone())`
CachedValue(old, bearer) == bearer

WriterKept(p) == p
\* the write guard is dropped when refresh_and_cache returns
WriterAfterReturn(p) == NoCaller

\* request_bearer returned Ok(bearer): `*cached = Some(bearer.clone())`, the
\* guard is dropped, Ok(bearer) is returned
StoreAndReturn(p, bearer) ==
  /\ bearer_token' = CachedValue(bearer_token, bearer)
  /\ lastAcquired' = bearer
  /\ slotAtLock' = [slotAtLock EXCEPT ![p] = NoToken]
  /\ slotChanged' = [slotChanged EXCEPT ![p] = bearer # slotAtLock[p]]
  /\ writer' = WriterAfterReturn(p)
  /\ rcRet' = [rcRet EXCEPT ![p] = Ok(bearer)]
  /\ AuthReturn(p, Ok(bearer))

\* request_bearer returned Err(e): `?` returns it, dropping the guard
FailAndReturn(p, e) ==
  /\ UNCHANGED <<bearer_token, lastAcquired>>
  /\ slotAtLock' = [slotAtLock EXCEPT ![p] = NoToken]
  /\ slotChanged' = [slotChanged EXCEPT ![p] = bearer_token # slotAtLock[p]]
  /\ writer' = WriterAfterReturn(p)
  /\ rcRet' = [rcRet EXCEPT ![p] = Err(e)]
  /\ AuthReturn(p, Err(e))

\* what Store/FailAndReturn decide, for the steps that stay in the acquisition
StayInside ==
  UNCHANGED <<bearer_token, lastAcquired, writer, rcRet, token, attempt, result, sentToken, slotAtLock,
              slotChanged>>

\* ---- request_bearer ----

FallbackAlways(r) == TRUE
\* `if let Ok(bearer) = refresh_bearer_token(..) { return Ok(bearer) }`, else
\* the interactive flow
Fallback(r) == r.kind # "Ok"

\* interactive_flow up to its blocking read: the PKCE pair, the authorization
\* URL, which is logged for the operator
EnterInteractive(p) ==
  /\ interRuns' = [interRuns EXCEPT ![p] = interRuns[p] + 1]
  /\ pc' = [pc EXCEPT ![p] = "read_line"]

RefreshTokenAdopted(old, rt) == IF rt # NoRefreshToken THEN rt ELSE old
\* the refresh token a token response returns is logged, never assigned to
\* self.refresh_token (every method takes &self)
RefreshTokenKept(old, rt) == old

\* `if let Some(new_refresh_token) = refresh_token.refresh_token()
\* { tracing::info!(.., new_refresh_token.secret()) }`: the refresh token is
\* logged when there is one; the bearer is in no log line
Logged(rt) == IF rt # NoRefreshToken THEN {"refresh_token"} ELSE {}

\* a token response with a bearer and rt, the refresh token it may carry
Surface(p, rt) ==
  /\ returnedRt' = [returnedRt EXCEPT ![p] = rt]
  /\ surfaced' = [surfaced EXCEPT ![p] = Logged(rt)]
  /\ refresh_token' = RefreshTokenKept(refresh_token, rt)

\* no token response with a bearer at this step
NoSurface == UNCHANGED <<returnedRt, surfaced, refresh_token>>

\* request_bearer with r, the result of refresh_bearer_token
AfterRefresh(p, r, rt) ==
  /\ refreshOutcome' = [refreshOutcome EXCEPT ![p] = IF r.kind = "Ok" THEN "Ok" ELSE r.val]
  /\ IF Fallback(r)
     THEN /\ EnterInteractive(p)
          /\ StayInside
          /\ NoSurface
     ELSE /\ StoreAndReturn(p, r.tok)
          /\ Surface(p, rt)
          /\ UNCHANGED interRuns

RefreshSendsAlways == TRUE
\* `self.refresh_token.clone().ok_or(Error::OauthRequired)?`
RefreshAvailable == refresh_token # NoRefreshToken

\* refresh_bearer_token up to its request: without a refresh token it returns
\* Err(OauthRequired) at once, to request_bearer
RefreshBearerToken(p) ==
  /\ pc[p] = "request_bearer"
  /\ IF RefreshAvailable
     THEN /\ refreshEx' = [refreshEx EXCEPT ![p] = refreshEx[p] + 1]
          /\ sentRt' = [sentRt EXCEPT ![p] = refresh_token]
          /\ pc' = [pc EXCEPT ![p] = "refresh_exchange"]
          /\ StayInside
          /\ NoSurface
          /\ UNCHANGED <<refreshOutcome, interRuns>>
     ELSE /\ AfterRefresh(p, Err("OauthRequired"), NoRefreshToken)
          /\ UNCHANGED <<refreshEx, sentRt>>
  /\ UNCHANGED <<readers, op, ctx, calls, seen, acq, codeEx, code, lineBlank>>
  /\ UNCHANGED reqHist

\* the refresh-grant request completes: with a bearer or with an error
RefreshExchangeDone(p, r, rt) ==
  /\ pc[p] = "refresh_exchange"
  /\ AfterRefresh(p, r, rt)
  /\ UNCHANGED <<sentRt, readers, op, ctx, calls, seen, acq, refreshEx, codeEx, code,
                 lineBlank>>
  /\ UNCHANGED reqHist

\* ---- interactive_flow ----

\* io::stdin().read_line(&mut code)? fails
ReadLineFails(p) ==
  /\ pc[p] = "read_line"
  /\ FailAndReturn(p, "Io")
  /\ NoSurface
  /\ UNCHANGED <<sentRt, readers, op, ctx, calls, seen, acq, refreshOutcome,
                 refreshEx, interRuns, codeEx, code, lineBlank>>
  /\ UNCHANGED reqHist

\* `if code.is_empty()`
CodeIsEmpty(c) == c = <<>>

\* read_line gave l: code.trim() ; empty -> Err(Any(..)), else the code-grant
\* request is sent
ReadLine(p, l) ==
  /\ pc[p] = "read_line"
  /\ lineBlank' = [lineBlank EXCEPT ![p] = \A i \in 1..Len(l) : l[i] \in Whitespace]
  /\ IF CodeIsEmpty(Trim(l))
     THEN /\ FailAndReturn(p, "authorization code cannot be empty")
          /\ UNCHANGED <<codeEx, code>>
     ELSE /\ code' = [code EXCEPT ![p] = Trim(l)]
          /\ codeEx' = [codeEx EXCEPT ![p] = codeEx[p] + 1]
          /\ pc' = [pc EXCEPT ![p] = "code_exchange"]
          /\ StayInside
  /\ NoSurface
  /\ UNCHANGED <<sentRt, readers, op, ctx, calls, seen, acq, refreshOutcome,
                 refreshEx, interRuns>>
  /\ UNCHANGED reqHist

\* the code-grant request completes; `code` goes out of scope
CodeExchangeDone(p, r, rt) ==
  /\ pc[p] = "code_exchange"
  /\ code' = [code EXCEPT ![p] = <<>>]
  /\ IF r.kind = "Ok"
     THEN /\ StoreAndReturn(p, r.tok)
          /\ Surface(p, rt)
     ELSE /\ FailAndReturn(p, r.val)
          /\ NoSurface
  /\ UNCHANGED <<sentRt, readers, op, ctx, calls, seen, acq, refreshOutcome,
                 refreshEx, interRuns, codeEx, lineBlank>>
  /\ UNCHANGED reqHist

\* what the token endpoint can answer
ExchangeResults == {Ok(t) : t \in Tokens} \cup {Err("Oauth2")}

\* `refresh_token.refresh_token()` of a token response: an Option. The
\* responses tried: the first bearer comes without a refresh token, every
\* other bearer with a new one
ReturnedRefresh(r) ==
  IF r.kind = "Ok" /\ r.tok # 1 THEN {RotatedRefreshToken} ELSE {NoRefreshToken}

\* ---- execute_request ----

IsSuccess(status) == status >= 200 /\ status < 300

\* handle_response: the body is read first, then the status decides
HandleResponse(status, body) ==
  IF body = "unreadable" THEN Err("Reqwest")
  ELSE IF status = StatusUnauthorized THEN Err("Unauthorized")
  ELSE IF status = StatusRateLimit THEN Err("RateLimit")
  ELSE IF ~IsSuccess(status)
       THEN IF body = "api_error" THEN Err("Api") ELSE Err("Any")
  ELSE Ok(NoToken)

\* serde_json::from_str::<T>(&txt) for T = ApiResponse<TweetObject> (untagged)
Decode(body) ==
  IF body = "value" THEN OkValue("ApiResponse::Ok")
  ELSE IF body = "api_error" THEN OkValue("ApiResponse::Err")
  ELSE Err("SerdeJson")

RetryOnEvery401(status, att) == status = StatusUnauthorized
RetryOnRateLimitToo(status, att) == status \in {StatusUnauthorized, StatusRateLimit} /\ att = 0
\* `if status == 401 && attempt == 0`
RetryOn(status, att) == status = StatusUnauthorized /\ att = 0

\* what a turn of the loop forgets: the history of the authenticate() or
\* refresh_and_cache() before it
SendStart(p) ==
  /\ pc[p] = "send"
  /\ sends' = [sends EXCEPT ![p] = sends[p] + 1]
  /\ ClearAcq(p)
  /\ seen' = [seen EXCEPT ![p] = "unread"]
  /\ acq' = [acq EXCEPT ![p] = 0]
  /\ rcRet' = [rcRet EXCEPT ![p] = NoResult]
  /\ slotAtLock' = [slotAtLock EXCEPT ![p] = NoToken]
  /\ UNCHANGED <<bearer_token, lastAcquired, refresh_token, writer, readers, op, calls>>

\* one turn of the loop, `request_builder(&token).send().await?` fails
SendFails(p) ==
  /\ SendStart(p)
  /\ Finish(p, Err("Reqwest"))
  /\ UNCHANGED <<lastStatus, bodyRead, forced, ctx>>

\* one turn of the loop, the request built with `token` is answered: a 401 on
\* the first attempt calls refresh_and_cache, anything else goes through
\* handle_response and the decoding of the body, and returns
Send(p, status, body) ==
  /\ SendStart(p)
  /\ lastStatus' = [lastStatus EXCEPT ![p] = status]
  /\ IF RetryOn(status, attempt[p])
     THEN /\ forced' = [forced EXCEPT ![p] = forced[p] + 1]
          /\ ctx' = [ctx EXCEPT ![p] = "force"]
          /\ pc' = [pc EXCEPT ![p] = "rc_lock"]
          /\ sentToken' = [sentToken EXCEPT ![p] = token[p]]
          /\ UNCHANGED <<result, bodyRead, token, attempt>>
     ELSE /\ bodyRead' = [bodyRead EXCEPT ![p] = body # "unreadable"]
          /\ LET txt == HandleResponse(status, body)
             IN Finish(p, IF txt.kind = "Ok" THEN Decode(body) ELSE txt)
          /\ UNCHANGED <<forced, ctx>>

Next ==
  \/ \E p \in Callers : CallAuthenticate(p)
  \/ \E p \in Callers : CallRefreshAndCache(p)
  \/ \E p \in Callers : CallExecuteRequest(p)
  \/ \E p \in Callers : ReadLock(p)
  \/ \E p \in Callers : AuthCheck(p)
  \/ \E p \in Callers : WriteLock(p)
  \/ \E p \in Callers : RefreshBearerToken(p)
  \/ \E p \in Callers, r \in ExchangeResults :
       \E rt \in ReturnedRefresh(r) : RefreshExchangeDone(p, r, rt)
  \/ \E p \in Callers : ReadLineFails(p)
  \/ \E p \in Callers, l \in Lines : ReadLine(p, l)
  \/ \E p \in Callers, r \in ExchangeResults :
       \E rt \in ReturnedRefresh(r) : CodeExchangeDone(p, r, rt)
  \/ \E p \in Callers : SendFails(p)
  \/ \E p \in Callers, status \in Statuses, body \in Bodies : Send(p, status, body)

Spec == Init /\ [][Next]_vars

\* a step of p that waits for no lock: the code between two awaits, or the
\* completion of a network exchange or of the read of the operator's line
Progress(p) ==
  \/ AuthCheck(p)
  \/ RefreshBearerToken(p)
  \/ \E r \in ExchangeResults : \E rt \in ReturnedRefresh(r) : RefreshExchangeDone(p, r, rt)
  \/ ReadLineFails(p)
  \/ \E l \in Lines : ReadLine(p, l)
  \/ \E r \in ExchangeResults : \E rt \in ReturnedRefresh(r) : CodeExchangeDone(p, r, rt)
  \/ SendFails(p)
  \/ \E status \in Statuses, body \in Bodies : Send(p, status, body)

\* the runtime polls every task that can go on; every exchange and every read
\* of the operator's line completes; tokio's RwLock queues its waiters fairly,
\* so a task that waits for a guard gets it if the lock keeps becoming free
Fairness ==
  \A p \in Callers :
    /\ WF_vars(Progress(p))
    /\ SF_vars(ReadLock(p))
    /\ SF_vars(WriteLock(p))

SpecFair == Spec /\ Fairness

\* ---- the claims ----

\* inside request_bearer, between taking the write guard and dropping it
AcqPcs == {"request_bearer", "refresh_exchange", "read_line", "code_exchange"}

\* C1 (as claimed): authenticate() calls that all found the slot Empty and all
\* returned a credential ran one acquisition between them and returned the
\* same credential.
C1_OneAcquisitionForConcurrentCallers ==
  \A p \in Callers : \A q \in Callers \ {p} :
    ( /\ op[p] = "authenticate" /\ op[q] = "authenticate"
      /\ seen[p] = "empty" /\ seen[q] = "empty"
      /\ pc[p] = "done" /\ pc[q] = "done"
      /\ result[p].kind = "Ok" /\ result[q].kind = "Ok" )
    => /\ result[p].tok = result[q].tok
       /\ acq[p] + acq[q] = 1

\* C2: at most one caller is inside an acquisition (refresh exchange or
\* interactive exchange) at any time, and that caller holds the write guard.
C2_OneAcquisitionInFlight ==
  /\ Cardinality({p \in Callers : pc[p] \in AcqPcs}) <= 1
  /\ \A p \in Callers : pc[p] \in AcqPcs => writer = p /\ readers = {}

C2_Witness ==
  \E p \in Callers : \E q \in Callers \ {p} :
    pc[p] \in {"refresh_exchange", "read_line", "code_exchange"} /\ pc[q] = "rc_lock"

\* C3: an authenticate() that finds the slot Cached returns the cached value
\* in that step, to the task or to execute_request, without taking the write
\* guard, without an exchange or an interactive flow and without changing the
\* slot; and a slot that is Cached is never emptied, so every authenticate()
\* after a successful acquisition is such a call.
C3_CachedReturnedWithoutExchange ==
  [][ /\ bearer_token # NoToken => bearer_token' # NoToken
      /\ \A p \in Callers :
           (pc[p] = "auth_check" /\ pc'[p] # "auth_check" /\ bearer_token # NoToken)
           => /\ bearer_token' = bearer_token
              /\ writer' = writer
              /\ acq'[p] = 0 /\ refreshEx'[p] = 0 /\ interRuns'[p] = 0 /\ codeEx'[p] = 0
              /\ IF op[p] = "execute_request"
                 THEN pc'[p] = "send" /\ token'[p] = bearer_token
                 ELSE pc'[p] = "done" /\ result'[p] = Ok(bearer_token) ]_vars

C3_Witness ==
  \E p \in Callers :
    /\ op[p] = "authenticate" /\ pc[p] = "done" /\ seen[p] = "cached"
    /\ result[p] = Ok(bearer_token)
    /\ calls = 2

\* C4 (as claimed): when the refresh forced by execute_request after a 401 has
\* failed (and no other task has touched the authenticator), the slot is Empty.
C4_FailedForcedRefreshLeavesEmpty ==
  \A p \in Callers :
    ( /\ op[p] = "execute_request" /\ forced[p] = 1
      /\ pc[p] = "done" /\ ctx[p] = "force" /\ rcRet[p].kind = "Err"
      /\ \A q \in Callers \ {p} : pc[q] = "idle" )
    => bearer_token = NoToken

C8_BlankCodeFailsWithoutExchange ==
  \A p \in Callers :
    lineBlank[p]
    => /\ codeEx[p] = 0
       /\ pc[p] \notin AcqPcs
       /\ rcRet[p] = Err("authorization code cannot be empty")
       /\ interRuns[p] = 1
       /\ op[p] # "execute_request" => result[p] = rcRet[p]

C8_Witness ==
  \E p \in Callers :
    /\ lineBlank[p] /\ pc[p] = "done"
    /\ result[p] = Err("authorization code cannot be empty")
    /\ codeEx[p] = 0

\* C9: an acquisition tries the refresh first; after a successful refresh the
\* interactive flow is not run; after an unavailable or failed refresh it is
\* run once; its failure is what the acquisition returns; no acquisition has
\* more than one refresh exchange, one interactive run and one code exchange.
C9_RefreshThenInteractiveOnce ==
  \A p \in Callers :
    /\ refreshEx[p] <= 1 /\ interRuns[p] <= 1 /\ codeEx[p] <= 1
    /\ pc[p] \in {"request_bearer", "refresh_exchange"}
       => refreshOutcome[p] = "none" /\ interRuns[p] = 0 /\ codeEx[p] = 0
    /\ pc[p] \in {"read_line", "code_exchange"}
       => refreshOutcome[p] \in {"OauthRequired", "Oauth2"} /\ interRuns[p] = 1
    /\ refreshOutcome[p] = "Ok"
       => interRuns[p] = 0 /\ codeEx[p] = 0 /\ rcRet[p].kind = "Ok"
    /\ refreshOutcome[p] \in {"OauthRequired", "Oauth2"} => interRuns[p] = 1
    /\ refreshOutcome[p] = "Oauth2" => refreshEx[p] = 1
    /\ rcRet[p].kind = "Err"
       => /\ interRuns[p] = 1
          /\ rcRet[p].val \in {"Io", "authorization code cannot be empty", "Oauth2"}
          /\ pc[p] = "done" /\ result[p] = rcRet[p]

C9_Witness ==
  \E p \in Callers :
    /\ refreshOutcome[p] = "Oauth2" /\ refreshEx[p] = 1 /\ interRuns[p] = 1 /\ codeEx[p] = 1
    /\ rcRet[p] = Err("Oauth2") /\ pc[p] = "done"

\* C10: when the acquisition of an authenticate() that found the slot Empty has
\* failed, the caller has the error, the slot holds what it held when the
\* acquisition began, and the write guard is free of that caller.
C10_FailedAcquisitionLeavesSlotAndLock ==
  \A p \in Callers :
    (ctx[p] = "authenticate" /\ seen[p] = "empty" /\ rcRet[p].kind = "Err")
    => /\ pc[p] = "done" /\ result[p] = rcRet[p]
       /\ ~slotChanged[p]
       /\ writer # p

\* after one caller's failed acquisition another caller is inside a new one
C10_Witness ==
  \E p \in Callers : \E q \in Callers \ {p} :
    /\ op[p] = "authenticate" /\ ctx[p] = "authenticate" /\ seen[p] = "empty"
    /\ rcRet[p].kind = "Err" /\ pc[p] = "done"
    /\ op[q] = "authenticate" /\ pc[q] \in AcqPcs /\ writer = q

\* C12: the slot changes only in a step of the caller that holds the write
\* guard, the step in which its refresh_and_cache returns the value stored;
\* and an authenticate() that finds the slot Cached goes neither to the write
\* lock nor into an acquisition, and leaves slot and lock as they are.
C12_SlotChangesUnderWriteGuard ==
  [][ /\ bearer_token' # bearer_token
         => /\ writer \in Callers
            /\ pc[writer] \in AcqPcs /\ pc'[writer] \notin AcqPcs
            /\ rcRet'[writer] = Ok(bearer_token')
            /\ readers = {}
            /\ \A q \in Callers \ {writer} : pc'[q] = pc[q]
      /\ \A p \in Callers :
           (pc[p] = "auth_check" /\ pc'[p] # "auth_check" /\ bearer_token # NoToken)
           => /\ pc'[p] \notin AcqPcs \cup {"rc_lock"}
              /\ seen'[p] = "cached"
              /\ <<bearer_token, writer>>' = <<bearer_token, writer>> ]_vars

\* a caller is about to store over a cached credential, holding the write guard
C12_Witness ==
  \E p \in Callers :
    /\ writer = p /\ pc[p] = "refresh_exchange"
    /\ bearer_token # NoToken
    /\ \E q \in Callers \ {p} : seen[q] = "cached" /\ pc[q] = "done"

\* C13: execute_request never sends more than twice, is over after its second
\* send, and never reaches the unreachable! after the loop.
C13_ReturnsWithinTwoSends ==
  \A p \in Callers :
    /\ pc[p] # "unreachable"
    /\ sends[p] <= MaxAttempts
    /\ attempt[p] < MaxAttempts
    /\ sends[p] = MaxAttempts => pc[p] = "done" /\ result[p].kind # "None"
    /\ pc[p] = "send" => sends[p] = attempt[p]

C13_Witness ==
  \E p \in Callers :
    /\ op[p] = "execute_request" /\ pc[p] = "done" /\ sends[p] = MaxAttempts
    /\ lastStatus[p] = StatusOk /\ result[p] = OkValue("ApiResponse::Ok")

\* C14: a read guard and the write guard are never out together, so an
\* authenticate() that starts during another caller's acquisition waits at
\* its read until the acquisition is over; what it then returns from the
\* cache is the slot's value at that moment, with no write guard out.
C14_NoReadDuringAcquisition ==
  /\ [](\A p \in Callers :
          /\ p \in readers <=> pc[p] = "auth_check"
          /\ p \in readers => writer = NoCaller /\ \A q \in Callers : pc[q] \notin AcqPcs)
  /\ [][\A p \in Callers :
          (pc[p] = "auth_read" /\ pc'[p] # "auth_read")
          => writer = NoCaller /\ \A q \in Callers : pc[q] \notin AcqPcs]_vars
  /\ [][\A p \in Callers :
          (seen[p] # "cached" /\ seen'[p] = "cached")
          => /\ writer = NoCaller
             /\ IF op[p] = "execute_request"
                THEN token'[p] = bearer_token
                ELSE result'[p].tok = bearer_token]_vars

\* a caller's authenticate() has started and waits at its read while another
\* caller's first acquisition has its code-grant request in flight
C14_Witness ==
  \E p \in Callers : \E q \in Callers \ {p} :
    /\ op[p] = "authenticate" /\ pc[p] = "auth_read"
    /\ writer = q /\ pc[q] = "code_exchange" /\ bearer_token = NoToken

\* C16: the slot is Empty while no refresh_and_cache has succeeded, and else
\* holds the bearer the most recent successful refresh_and_cache returned; a
\* successful refresh_and_cache returns, in the step that drops its write
\* guard, the value the slot then holds.
C16_SlotHoldsLastAcquired ==
  /\ [](bearer_token = lastAcquired)
  /\ [][\A p \in Callers :
          (rcRet'[p] # rcRet[p] /\ rcRet'[p].kind = "Ok")
          => /\ writer = p /\ writer' = NoCaller
             /\ rcRet'[p].tok = bearer_token']_vars

\* two acquisitions succeeded with different bearers; the slot holds the later
C16_Witness ==
  \E p \in Callers : \E q \in Callers \ {p} :
    /\ pc[p] = "done" /\ pc[q] = "done"
    /\ rcRet[p].kind = "Ok" /\ rcRet[q].kind = "Ok" /\ rcRet[p].tok # rcRet[q].tok
    /\ slotChanged[q] /\ bearer_token = rcRet[q].tok

\* C11 (as claimed): after every successful acquisition the new bearer has
\* been handed out for persistence, and with it the refresh token the token
\* endpoint returned, when it returned one.
C11_SinkReceivesBearerAndRefresh ==
  \A p \in Callers :
    rcRet[p].kind = "Ok"
    => /\ "bearer" \in surfaced[p]
       /\ returnedRt[p] # NoRefreshToken => "refresh_token" \in surfaced[p]

\* C15: no step changes the authenticator's refresh token, whatever the
\* token endpoint returns, and every refresh-grant request carries the value
\* read from the environment at construction.
C15_RefreshTokenReadOnly ==
  /\ [][refresh_token' = refresh_token]_vars
  /\ [](\A p \in Callers :
          refreshEx[p] > 0 => sentRt[p] = EnvRefreshToken /\ sentRt[p] = refresh_token)

\* an acquisition got a rotated refresh token from the token endpoint, and a
\* later refresh-grant request is in flight with the token of construction
C15_Witness ==
  \E p \in Callers : \E q \in Callers \ {p} :
    /\ pc[p] = "done" /\ rcRet[p].kind = "Ok" /\ returnedRt[p] = RotatedRefreshToken
    /\ writer = q /\ pc[q] = "refresh_exchange" /\ sentRt[q] = EnvRefreshToken

\* C17: under fair scheduling every call that has started returns; a caller
\* that waits for the write guard holds no read guard, and a caller holds the
\* write guard only inside its acquisition, never after refresh_and_cache
\* has returned, with a bearer or with an error.
C17_EveryCallReturns ==
  /\ [](\A p \in Callers :
          /\ pc[p] = "rc_lock" => p \notin readers
          /\ writer = p => pc[p] \in AcqPcs)
  /\ \A p \in Callers : (pc[p] \notin {"idle", "done"}) ~> (pc[p] = "done")

\* an execute_request call has returned after a 401, a forced refresh and a
\* second send, and another caller's failed acquisition has returned; no
\* guard is left out
C17_Witness ==
  \E p \in Callers : \E q \in Callers \ {p} :
    /\ op[p] = "execute_request" /\ pc[p] = "done" /\ forced[p] = 1
    /\ sends[p] = MaxAttempts /\ result[p].kind # "None"
    /\ pc[q] = "done" /\ seen[q] = "empty" /\ rcRet[q].kind = "Err"
    /\ writer = NoCaller /\ readers = {}

====
